---- MODULE Spec2Model ----
(***************************************************************************)
(* Sequential audio playback of the quantum-linguistics app.               *)
(*                                                                         *)
(* The repository holds three implementations of playQuestionsSequentially *)
(*   "urls"      src/src/services/ttsService.js:125-150   one Audio per    *)
(*               item, created from a URL, no catch on play()              *)
(*   "preloaded" src/src/services/ttsService.js:342-454   preloaded Audio  *)
(*               objects, 15 s safety timeout, hasResolved guard           *)
(*   "single"    src/unnamed/part_000:163-262   one shared mainAudio,      *)
(*               control.stop()                                            *)
(* impl selects the implementation a behaviour runs.  Time is counted in   *)
(* seconds.  Every action is one browser task: the handler it runs and the *)
(* promise reactions (microtasks) that follow it.                          *)
(*                                                                         *)
(* Spec         playQuestionsSequentially                                  *)
(* SpecPrepare  textToSpeech, generateQuestionAudios, cleanupAudioObjects  *)
(* SpecApp      App.jsx with the AudioPlayer component                     *)
(* SpecQuestions generateCartesianQuestions, formatQuestionsForDisplay     *)
(* SpecSynthesize textToSpeech called on its own, with useBrowserFallback  *)
(* SpecRecognition speechRecognition.js with BeliefInput's microphone      *)
(***************************************************************************)
EXTENDS Integers, Sequences, FiniteSets, TLC

\* ---------------------------------------------------------------- bounds
MaxItems == 3
MaxPause == 2
MaxQuestions == 3
MaxTexts == 2
MaxCleanups == 3
MaxSubmits == 2
MaxPlays == 2
\* questions per belief that the application part follows
AppItems == 2
\* words of a belief
MaxWords == 3
\* textToSpeech calls made on their own
MaxCalls == 2
\* SpeechRecognition objects created
MaxRecognitions == 3

\* the safety timeout of the preloaded implementation, 15000 ms
SafetyTimeout == 15

None == -1
Null == "null"
Audio == "audio"

Impls == {"urls", "preloaded", "single"}

VARIABLES
  impl,            \* which implementation of playQuestionsSequentially runs
  audioObjects,    \* the playlist: Audio or Null per question
  pauseDuration,   \* seconds between questions
  pc,              \* "idle", "running", "awaitItem", "pausing", "done"
  currentIndex,    \* currentIndex (single) / loop variable i (urls, preloaded)
  aborted,         \* single: the stop flag
  playbackComplete,\* single: declared, never set
  mainAudio,       \* state of the audio element in use
  src,             \* index of the item loaded into the element, or None
  handlers,        \* onended/onerror are installed on the element
  playPromise,     \* item whose play() promise is pending, or None
  micro,           \* queued rejection reactions, by item
  event,           \* media event task queued by the device, not yet delivered
  pauseTimers,     \* pending setTimeout(pauseDuration) timers: seconds left
  safetyTimer,     \* preloaded: seconds left of the safety timeout, or None
  resolved,        \* urls, preloaded: items whose per-item promise is resolved
  \* ------------------------------------------------ observations (history)
  startLog,        \* indices passed to onQuestionStart, in order
  playLog,         \* play() calls: item, busy (another item active), gap
  pauseLog,        \* pause timers scheduled: trigger and plays so far
  completeCount,   \* number of onComplete calls
  active,          \* items started and not yet observed finished
  sinceFinish,     \* seconds since the last observed finish (capped), or None
  playingFor,      \* seconds since the last play() call (capped)
  abnormal,        \* an error, a play rejection or a timeout has happened
  stoppedIn,       \* element states in which stop() has been called
  \* ------------------------------------------- preparation (generateQuestionAudios)
  prepImpl,        \* which implementation of generateQuestionAudios runs
  questions,       \* the input list: one text per question
  hasKey,          \* import.meta.env.VITE_OPENAI_API_KEY is set
  hasSpeech,       \* 'speechSynthesis' in window
  useBrowserFallback,  \* per textToSpeech call: its useBrowserFallback argument
  prepPc,          \* "idle", "running", "returned", "rejected"
  tts,             \* per question: where its textToSpeech / preload stands
  results,         \* per question: the URL textToSpeech returned, or Null
  audioOut,        \* the list generateQuestionAudios builds and returns
  urlCount,        \* object URLs created so far
  spoken,          \* texts handed to speechSynthesis.speak, in order
  remoteResult,    \* per question: outcome of the OpenAI call (history)
  preloadResult,   \* per question: outcome of the preload (history)
  narrated,        \* per question: speechSynthesis.speak calls made for it
  narratorResult,  \* per question: how its last utterance finished (history)
  ttsOutcome,      \* per question: how its textToSpeech promise settled
  \* ------------------------------------------------- cleanupAudioObjects
  emptySrcReads,   \* what audio.src reads after audio.src = '' (browser)
  cleared,         \* entries of the returned list whose src was set to ''
  revoked,         \* arguments of URL.revokeObjectURL, in call order
  cleanupCalls,    \* cleanupAudioObjects calls made
  cleanupThrew,    \* a cleanupAudioObjects call ended in a TypeError
  \* ------------------------------------- the application (App, AudioPlayer)
  currentBelief,       \* 0 for '', else the number of the submitted belief
  appQuestions,        \* App's questions: 0 for null, else the belief they answer
  formattedQuestions,  \* 0 for [], else the belief they answer
  appAudioObjects,     \* App's audioObjects: the belief and one URL id or 0 (null) per question
  isProcessing,
  isLoadingAudio,
  isPlaying,
  currentQuestionIndex,
  error,               \* "", "generate", "noaudio"
  pauseDurationRef,    \* pauseDurationRef.current, in seconds
  wakeLockRef,         \* wakeLockRef.current: 0 for null, else a lock id
  selectedPause,       \* AudioPlayer's pauseDuration state, in seconds
  hasWakeLock,         \* 'wakeLock' in navigator
  submissions,         \* per handleBeliefSubmit call: the await it stands at
  pendingPlays,        \* handlePlay calls awaiting navigator.wakeLock.request: their audioObjects
  sessions,            \* playQuestionsSequentially calls whose item loop is running
  playCount,           \* handlePlay calls that went on to play
  heldLocks,           \* wake locks granted and not released
  lockCount,           \* wake locks granted so far
  liveUrls,            \* object URLs created and not revoked
  \* ---- question generation (src/unnamed/part_001, App.jsx:21-34)
  belief,              \* the submitted belief, a sequence of words
  genPc,               \* "idle", "calling", "shown", "failed"
  remote,              \* what the remote call did: "", "threw", "unparseable", "json"
  generated,           \* what generateCartesianQuestions returned or that it rejected
  display,             \* formattedQuestions as set by handleBeliefSubmit
  submitError,         \* handleBeliefSubmit's catch ran
  \* ---- speech recognition (speechRecognition.js:1-85, BeliefInput)
  supported,           \* isSpeechRecognitionSupported()
  isListening,         \* BeliefInput's isListening state
  inputBelief,         \* BeliefInput's belief state: 0 for '', else a transcript
  inputError,          \* BeliefInput's error state: "" or "recognition"
  recognitions         \* the SpeechRecognition objects created so far

playerVars == <<impl, audioObjects, pauseDuration, pc, currentIndex, aborted,
                playbackComplete, mainAudio, src, handlers, playPromise, micro, event,
                pauseTimers, safetyTimer, resolved>>
obsVars == <<startLog, playLog, pauseLog, completeCount, active, sinceFinish,
             playingFor, abnormal, stoppedIn>>
prepVars == <<prepImpl, questions, hasKey, hasSpeech, useBrowserFallback, prepPc, tts, results,
              audioOut, urlCount, spoken, remoteResult, preloadResult,
              narrated, narratorResult, ttsOutcome>>
cleanVars == <<emptySrcReads, cleared, revoked, cleanupCalls, cleanupThrew>>
appVars == <<currentBelief, appQuestions, formattedQuestions, appAudioObjects,
             isProcessing, isLoadingAudio, isPlaying, currentQuestionIndex, error,
             pauseDurationRef, wakeLockRef, selectedPause, hasWakeLock,
             submissions, pendingPlays, sessions, playCount, heldLocks, lockCount,
             liveUrls>>
genVars == <<belief, genPc, remote, generated, display, submitError>>
recVars == <<supported, isListening, inputBelief, inputError, recognitions>>
vars == <<playerVars, obsVars, prepVars, cleanVars, appVars, genVars, recVars>>

Min(a, b) == IF a < b THEN a ELSE b

N == Len(audioObjects)

\* the state the handlers work on, as one record
St ==
  [pc |-> pc, currentIndex |-> currentIndex, aborted |-> aborted,
   mainAudio |-> mainAudio, src |-> src, playPromise |-> playPromise,
   micro |-> micro, event |-> event, pauseTimers |-> pauseTimers,
   safetyTimer |-> safetyTimer, resolved |-> resolved,
   startLog |-> startLog, playLog |-> playLog, pauseLog |-> pauseLog,
   completeCount |-> completeCount, active |-> active,
   sinceFinish |-> sinceFinish, playingFor |-> playingFor,
   abnormal |-> abnormal, stoppedIn |-> stoppedIn,
   handlers |-> handlers,
   loadAnnounced |-> TRUE]   \* within a handler: see Announced

\* a player that empties the array it was given once it is done
ArgumentsConsumed ==
  /\ audioObjects' = IF pc' = "done" THEN <<>> ELSE audioObjects
  /\ UNCHANGED <<impl, pauseDuration, playbackComplete>>

\* no handler assigns to audioObjects, to an entry's src, to pauseDuration
\* or to playbackComplete
ArgumentsUntouched ==
  UNCHANGED <<impl, audioObjects, pauseDuration, playbackComplete>>

Commit(r) ==
  /\ pc' = r.pc
  /\ currentIndex' = r.currentIndex
  /\ aborted' = r.aborted
  /\ mainAudio' = r.mainAudio
  /\ src' = r.src
  /\ playPromise' = r.playPromise
  /\ micro' = r.micro
  /\ event' = r.event
  /\ pauseTimers' = r.pauseTimers
  /\ safetyTimer' = r.safetyTimer
  /\ resolved' = r.resolved
  /\ startLog' = r.startLog
  /\ playLog' = r.playLog
  /\ pauseLog' = r.pauseLog
  /\ completeCount' = r.completeCount
  /\ active' = r.active
  /\ sinceFinish' = r.sinceFinish
  /\ playingFor' = r.playingFor
  /\ abnormal' = r.abnormal
  /\ stoppedIn' = r.stoppedIn
  /\ handlers' = r.handlers
  /\ ArgumentsUntouched
  /\ UNCHANGED <<prepVars, cleanVars, appVars, genVars, recVars>>

\* ------------------------------------------------------- callbacks, device

\* onQuestionStart(i)
OnQuestionStart(s, i) == [s EXCEPT !.startLog = Append(@, i)]

\* onComplete()
OnComplete(s) == [s EXCEPT !.completeCount = @ + 1]

\* an end, error, rejection or timeout of item i is observed by a handler
Finished(s, i) ==
  IF i \in s.active
    THEN [s EXCEPT !.active = @ \ {i}, !.sinceFinish = 0]
    ELSE s

\* onQuestionStart(i) was the latest onQuestionStart call
Announced(s, i) == s.startLog # <<>> /\ s.startLog[Len(s.startLog)] = i

\* element.src = <item i>: the media load algorithm rejects a pending play()
\* promise (AbortError) and drops the element's queued event tasks
SetSrc(s, i) ==
  [s EXCEPT !.src = i,
            !.loadAnnounced = Announced(s, i),
            !.mainAudio = "loaded",
            !.micro = IF s.playPromise # None THEN Append(@, s.playPromise) ELSE @,
            !.playPromise = None,
            !.event = "none"]

\* the Audio element play() is called on for item i: mainAudio (0) under
\* "single", the item's own element (i + 1) under "preloaded" and "urls"
DeviceOf(i) == IF impl = "single" THEN 0 ELSE i + 1

\* element.play() on the loaded item: returns a pending promise
ElementPlay(s) ==
  [s EXCEPT !.mainAudio = "loading",
            !.playPromise = s.src,
            !.playingFor = 0,
            !.playLog = Append(@, [item |-> s.src,
                                   busy |-> s.active # {},
                                   gap |-> s.sinceFinish,
                                   loadAnnounced |-> s.loadAnnounced,
                                   announced |-> Announced(s, s.src),
                                   device |-> DeviceOf(s.src)]),
            !.active = @ \cup {s.src}]

\* element.pause(): a pending play() promise is rejected (AbortError)
ElementPause(s) ==
  [s EXCEPT !.mainAudio = IF @ \in {"loading", "playing"} THEN "paused" ELSE @,
            !.micro = IF s.playPromise # None THEN Append(@, s.playPromise) ELSE @,
            !.playPromise = None]

\* setTimeout(() => ..., pauseDuration)
SchedulePause(s, why) ==
  [s EXCEPT !.pauseTimers = Append(@, pauseDuration),
            !.pauseLog = Append(@, [trigger |-> why,
                                    plays |-> Len(s.playLog),
                                    sinceFinish |-> s.sinceFinish])]

\* ------------------------------------------- "single": src/unnamed/part_000

\* resolveAll()
ResolveAll(s) == [s EXCEPT !.pc = "done"]

\* ----- variants of playNextQuestion, each with one plausible slip; the
\* properties below must tell them from playNextQuestion

\* the aborted check is missing
RECURSIVE PlayNextQuestionNoAbortCheck(_)
PlayNextQuestionNoAbortCheck(s) ==
  IF s.currentIndex >= N \/ playbackComplete
    THEN ResolveAll(OnComplete(s))
  ELSE IF audioObjects[s.currentIndex + 1] = Null
    THEN PlayNextQuestionNoAbortCheck([s EXCEPT !.currentIndex = @ + 1])
  ELSE LET s1 == SetSrc(OnQuestionStart(s, s.currentIndex), s.currentIndex)
       IN  ElementPlay([s1 EXCEPT !.handlers = TRUE])

\* a null entry is played like an audio entry
PlayNextQuestionPlaysNull(s) ==
  IF s.aborted
    THEN ResolveAll(OnComplete(s))
  ELSE IF s.currentIndex >= N \/ playbackComplete
    THEN ResolveAll(OnComplete(s))
  ELSE LET s1 == SetSrc(OnQuestionStart(s, s.currentIndex), s.currentIndex)
       IN  ElementPlay([s1 EXCEPT !.handlers = TRUE])

\* a null entry is followed by the pause instead of being skipped at once
PlayNextQuestionPauseOnNull(s) ==
  IF s.aborted
    THEN ResolveAll(OnComplete(s))
  ELSE IF s.currentIndex >= N \/ playbackComplete
    THEN ResolveAll(OnComplete(s))
  ELSE IF audioObjects[s.currentIndex + 1] = Null
    THEN SchedulePause([s EXCEPT !.currentIndex = @ + 1], "missing")
  ELSE LET s1 == SetSrc(OnQuestionStart(s, s.currentIndex), s.currentIndex)
       IN  ElementPlay([s1 EXCEPT !.handlers = TRUE])

\* onQuestionStart is called after play() instead of before the load
RECURSIVE PlayNextQuestionStartsLate(_)
PlayNextQuestionStartsLate(s) ==
  IF s.aborted
    THEN ResolveAll(OnComplete(s))
  ELSE IF s.currentIndex >= N \/ playbackComplete
    THEN ResolveAll(OnComplete(s))
  ELSE IF audioObjects[s.currentIndex + 1] = Null
    THEN PlayNextQuestionStartsLate([s EXCEPT !.currentIndex = @ + 1])
  ELSE LET s1 == SetSrc(s, s.currentIndex)
       IN  OnQuestionStart(ElementPlay([s1 EXCEPT !.handlers = TRUE]),
                           s.currentIndex)

RECURSIVE PlayNextQuestion(_)
PlayNextQuestion(s) ==
  IF s.aborted
    THEN ResolveAll(OnComplete(s))
  ELSE IF s.currentIndex >= N \/ playbackComplete
    THEN ResolveAll(OnComplete(s))
  ELSE IF audioObjects[s.currentIndex + 1] = Null
    THEN PlayNextQuestion([s EXCEPT !.currentIndex = @ + 1])
  ELSE LET s1 == SetSrc(OnQuestionStart(s, s.currentIndex), s.currentIndex)
       IN  ElementPlay([s1 EXCEPT !.handlers = TRUE])

\* mainAudio.onended with the pause left out
MainAudioOnEndedNoPause(s) ==
  PlayNextQuestion([s EXCEPT !.currentIndex = @ + 1])

\* mainAudio.onended that pauses after every item, the last one included
MainAudioOnEndedAlwaysPauses(s) ==
  SchedulePause([s EXCEPT !.currentIndex = @ + 1], "ended")

\* mainAudio.onended
MainAudioOnEnded(s) ==
  LET s1 == [s EXCEPT !.currentIndex = @ + 1]
  IN  IF s1.currentIndex < N
        THEN SchedulePause(s1, "ended")
        ELSE PlayNextQuestion(s1)

\* mainAudio.onerror
MainAudioOnError(s) ==
  PlayNextQuestion([s EXCEPT !.currentIndex = @ + 1])

\* playPromise.catch
PlayPromiseCatch(s) ==
  PlayNextQuestion([s EXCEPT !.currentIndex = @ + 1])

\* control.stop that also rewinds the playlist
ControlStopResetsIndex(s) ==
  ElementPause([s EXCEPT !.aborted = TRUE,
                         !.currentIndex = 0,
                         !.stoppedIn = @ \cup {IF s.pc = "done" THEN "completed"
                                               ELSE s.mainAudio}])

\* control.stop that also skips the current item
ControlStopSkipsItem(s) ==
  ElementPause([s EXCEPT !.aborted = TRUE,
                         !.currentIndex = @ + 1,
                         !.stoppedIn = @ \cup {IF s.pc = "done" THEN "completed"
                                               ELSE s.mainAudio}])

\* control.stop
ControlStop(s) ==
  ElementPause([s EXCEPT !.aborted = TRUE,
                         !.stoppedIn = @ \cup {IF s.pc = "done" THEN "completed"
                                               ELSE s.mainAudio}])


\* ---------------- "preloaded": src/src/services/ttsService.js:342-454

\* the loop body from index currentIndex on, up to the next await or the end
RECURSIVE PreloadedLoop(_)
PreloadedLoop(s) ==
  IF s.currentIndex >= N
    THEN [OnComplete(s) EXCEPT !.pc = "done"]
  ELSE LET i == s.currentIndex
           s1 == OnQuestionStart(s, i)
       IN  IF audioObjects[i + 1] = Null
             THEN PreloadedLoop([s1 EXCEPT !.currentIndex = @ + 1])
             ELSE ElementPlay([s1 EXCEPT !.src = i,
                                         !.loadAnnounced = Announced(s1, i),
                                         !.mainAudio = "loaded",
                                         !.event = "none",
                                         !.safetyTimer = SafetyTimeout,
                                         !.handlers = TRUE,
                                         !.pc = "awaitItem"])

\* what follows the await of item i: the pause, or the next iteration
PreloadedAfterItem(s, why) ==
  IF s.currentIndex < N - 1
    THEN [SchedulePause(s, why) EXCEPT !.pc = "pausing"]
    ELSE PreloadedLoop([s EXCEPT !.currentIndex = @ + 1])

\* safeResolve of item i's iteration
SafeResolve(s, i, why) ==
  IF i \in s.resolved
    THEN s
    ELSE PreloadedAfterItem(
           [Finished(s, i) EXCEPT !.resolved = @ \cup {i},
                                  !.safetyTimer = None], why)

\* cleanup of item i's iteration
Cleanup(s, i) == IF s.src = i THEN [s EXCEPT !.handlers = FALSE] ELSE s

\* audio.onended / audio.onerror / playPromise.catch of item i's iteration
PreloadedOnEnded(s, i) == SafeResolve(Cleanup(s, i), i, "ended")
PreloadedOnError(s, i) == SafeResolve(Cleanup(s, i), i, "error")
PreloadedCatch(s, i) == SafeResolve(Cleanup(s, i), i, "rejected")

\* the safety timeout callback of item i's iteration
PreloadedTimeout(s, i) ==
  IF i \in s.resolved
    THEN s
    ELSE PreloadedAfterItem(
           ElementPause([Finished(s, i) EXCEPT !.resolved = @ \cup {i},
                                               !.abnormal = TRUE]), "timeout")

\* ------------------------ "urls": src/src/services/ttsService.js:125-150

\* what follows item i: the pause (also after a missing URL), or the end
UrlsAfterItem(s, why) ==
  IF s.currentIndex < N - 1
    THEN [SchedulePause(s, why) EXCEPT !.pc = "pausing"]
    ELSE [s EXCEPT !.currentIndex = @ + 1, !.pc = "running"]

RECURSIVE UrlsLoop(_)
UrlsLoop(s) ==
  IF s.currentIndex >= N
    THEN [OnComplete(s) EXCEPT !.pc = "done"]
  ELSE LET i == s.currentIndex
           s1 == OnQuestionStart(s, i)
       IN  IF audioObjects[i + 1] = Null
             THEN LET s2 == UrlsAfterItem(s1, "missing")
                  IN  IF s2.pc = "pausing" THEN s2 ELSE UrlsLoop(s2)
             ELSE ElementPlay([s1 EXCEPT !.src = i,
                                         !.loadAnnounced = Announced(s1, i),
                                         !.mainAudio = "loaded",
                                         !.event = "none",
                                         !.playPromise = None,
                                         !.handlers = TRUE,
                                         !.pc = "awaitItem"])

\* audio.onended = resolve; audio.onerror = resolve
UrlsResolve(s, i, why) ==
  IF i \in s.resolved
    THEN s
    ELSE LET s1 == UrlsAfterItem([Finished(s, i) EXCEPT !.resolved = @ \cup {i}], why)
         IN  IF s1.pc = "pausing" THEN s1 ELSE UrlsLoop(s1)

\* ------------------------------------------------ dispatch on impl, drain

\* the rejection reaction of item i's play() promise
Catch(s, i) ==
  CASE impl = "single" -> PlayPromiseCatch(Finished(s, i))
    [] impl = "preloaded" -> PreloadedCatch(s, i)
    [] impl = "urls" -> s          \* no catch: the rejection is unhandled

\* run the queued promise reactions until none is left
RECURSIVE Drain(_)
Drain(s) ==
  IF s.micro = <<>>
    THEN s
    ELSE Drain(Catch([s EXCEPT !.micro = Tail(@)], Head(s.micro)))

\* the element's ended handler
OnEnded(s) ==
  IF ~s.handlers THEN s
  ELSE CASE impl = "single" -> MainAudioOnEnded(Finished(s, s.src))
         [] impl = "preloaded" -> PreloadedOnEnded(s, s.src)
         [] impl = "urls" -> UrlsResolve(s, s.src, "ended")

\* the element's error handler
OnError(s) ==
  IF ~s.handlers THEN s
  ELSE CASE impl = "single" -> MainAudioOnError(Finished(s, s.src))
         [] impl = "preloaded" -> PreloadedOnError(s, s.src)
         [] impl = "urls" -> UrlsResolve(s, s.src, "error")

\* the body of playQuestionsSequentially up to its first await or return
Start(s) ==
  CASE impl = "single" -> PlayNextQuestion([s EXCEPT !.pc = "running"])
    [] impl = "preloaded" -> PreloadedLoop(s)
    [] impl = "urls" -> UrlsLoop(s)

\* the callback of a pause timer
PauseCallback(s) ==
  CASE impl = "single" -> PlayNextQuestion(s)
    [] impl = "preloaded" ->
         PreloadedLoop([s EXCEPT !.currentIndex = @ + 1, !.pc = "running"])
    [] impl = "urls" ->
         UrlsLoop([s EXCEPT !.currentIndex = @ + 1, !.pc = "running"])

\* ------------------------------------------------------------------ actions

Playlists == UNION {[1..n -> {Audio, Null}] : n \in 1..MaxItems}

\* no playQuestionsSequentially call has been made
PlayerFresh ==
  /\ pc = "idle"
  /\ currentIndex = 0
  /\ aborted = FALSE
  /\ playbackComplete = FALSE
  /\ mainAudio = "empty"
  /\ src = None
  /\ handlers = FALSE
  /\ playPromise = None
  /\ micro = <<>>
  /\ event = "none"
  /\ pauseTimers = <<>>
  /\ safetyTimer = None
  /\ resolved = {}
  /\ startLog = <<>>
  /\ playLog = <<>>
  /\ pauseLog = <<>>
  /\ completeCount = 0
  /\ active = {}
  /\ sinceFinish = None
  /\ playingFor = 0
  /\ abnormal = FALSE
  /\ stoppedIn = {}

\* no generateQuestionAudios call has been made
\* every textToSpeech call leaves useBrowserFallback at its default
DefaultArguments == useBrowserFallback = [k \in 1..Len(questions) |-> FALSE]

PrepFresh ==
  /\ prepPc = "idle"
  /\ tts = [k \in 1..Len(questions) |-> "idle"]
  /\ results = [k \in 1..Len(questions) |-> [text |-> 0, id |-> 0]]
  /\ audioOut = <<>>
  /\ urlCount = 0
  /\ spoken = <<>>
  /\ remoteResult = [k \in 1..Len(questions) |-> "none"]
  /\ preloadResult = [k \in 1..Len(questions) |-> "none"]
  /\ narrated = [k \in 1..Len(questions) |-> 0]
  /\ narratorResult = [k \in 1..Len(questions) |-> "none"]
  /\ ttsOutcome = [k \in 1..Len(questions) |-> "none"]

\* the value of audio.src that is '' (falsy), and the document's own URL
EmptySrc == 0
DocumentUrl == -1

\* no cleanupAudioObjects call has been made
CleanFresh ==
  /\ cleared = {}
  /\ revoked = <<>>
  /\ cleanupCalls = 0
  /\ cleanupThrew = FALSE

\* useRef(2000) in App and useState(2) in AudioPlayer, in seconds
DefaultPause == 2

\* App's audioObjects state when it is []
NoList == [belief |-> 0, urls |-> <<>>]

\* the application as mounted: the initial values of its state and refs
AppFresh ==
  /\ currentBelief = 0
  /\ appQuestions = 0
  /\ formattedQuestions = 0
  /\ appAudioObjects = NoList
  /\ isProcessing = FALSE
  /\ isLoadingAudio = FALSE
  /\ isPlaying = FALSE
  /\ currentQuestionIndex = -1
  /\ error = ""
  /\ pauseDurationRef = DefaultPause
  /\ wakeLockRef = 0
  /\ selectedPause = DefaultPause
  /\ submissions = <<>>
  /\ pendingPlays = <<>>
  /\ sessions = <<>>
  /\ playCount = 0
  /\ heldLocks = {}
  /\ lockCount = 0
  /\ liveUrls = {}

\* no belief has been submitted
NoQuestions == [kind |-> "none", fields |-> [k \in {} |-> <<>>]]

GenFresh ==
  /\ belief = <<>>
  /\ genPc = "idle"
  /\ remote = ""
  /\ generated = [rejected |-> FALSE, value |-> NoQuestions]
  /\ display = <<>>
  /\ submitError = FALSE

\* BeliefInput as mounted, no recognition started
RecFresh ==
  /\ isListening = FALSE
  /\ inputBelief = 0
  /\ inputError = ""
  /\ recognitions = <<>>

Init ==
  /\ impl \in Impls
  /\ audioObjects \in Playlists
  /\ pauseDuration \in 1..MaxPause
  /\ PlayerFresh
  /\ prepImpl = "sequential"
  /\ questions = <<>>
  /\ hasKey = TRUE
  /\ hasSpeech = TRUE
  /\ DefaultArguments
  /\ PrepFresh
  /\ emptySrcReads = EmptySrc
  /\ CleanFresh
  /\ hasWakeLock = TRUE
  /\ AppFresh
  /\ GenFresh
  /\ supported = TRUE
  /\ RecFresh

\* the caller invokes playQuestionsSequentially
Play ==
  /\ pc = "idle"
  /\ Commit(Drain(Start(St)))

\* the device starts playback: the play() promise resolves
PlayResolves ==
  /\ playPromise # None
  /\ mainAudio = "loading"
  /\ Commit([St EXCEPT !.mainAudio = "playing", !.playPromise = None])

\* the device refuses to start playback: the play() promise is rejected
PlayRejected ==
  /\ playPromise # None
  /\ mainAudio = "loading"
  /\ Commit(Drain([St EXCEPT !.mainAudio = "blocked",
                             !.playPromise = None,
                             !.micro = Append(@, playPromise),
                             !.abnormal = TRUE]))

\* the playing item reaches its end: the device queues the ended event
DeviceEnds ==
  /\ mainAudio = "playing"
  /\ event = "none"
  /\ Commit([St EXCEPT !.mainAudio = "ended", !.event = "ended"])

\* loading or decoding fails: the device queues the error event
DeviceFails ==
  /\ mainAudio \in {"loading", "playing"}
  /\ event = "none"
  /\ Commit([St EXCEPT !.mainAudio = "failed", !.event = "error",
                       !.abnormal = TRUE])

\* the ended event is delivered
DeliverEnded ==
  /\ event = "ended"
  /\ Commit(Drain(OnEnded([St EXCEPT !.event = "none"])))

\* the error event is delivered; a play() promise still pending is rejected
DeliverError ==
  /\ event = "error"
  /\ Commit(Drain(OnError(
       [St EXCEPT !.event = "none",
                  !.playPromise = None,
                  !.micro = IF playPromise # None THEN Append(@, playPromise) ELSE @])))

\* a pause timer fires
PauseTimerFires ==
  /\ pauseTimers # <<>>
  /\ Head(pauseTimers) = 0
  /\ Commit(Drain(PauseCallback([St EXCEPT !.pauseTimers = Tail(@)])))

\* the safety timeout of the current item fires
SafetyTimerFires ==
  /\ safetyTimer = 0
  /\ Commit(Drain(PreloadedTimeout([St EXCEPT !.safetyTimer = None], src)))

\* the caller invokes control.stop (only "single" returns a control object)
Stop ==
  /\ impl = "single"
  /\ pc # "idle"
  /\ Commit(Drain(ControlStop(St)))

\* one second passes; a due timer fires before time moves on
Tick ==
  /\ pc # "idle"
  /\ \A k \in 1..Len(pauseTimers) : pauseTimers[k] > 0
  /\ safetyTimer # 0
  /\ \/ pauseTimers # <<>>
     \/ safetyTimer # None
     \/ mainAudio \in {"loading", "playing"}
  /\ Commit([St EXCEPT
       !.pauseTimers = [k \in 1..Len(pauseTimers) |-> pauseTimers[k] - 1],
       !.safetyTimer = IF @ = None THEN None ELSE @ - 1,
       !.sinceFinish = IF @ = None THEN None ELSE Min(@ + 1, pauseDuration),
       !.playingFor = Min(@ + 1, SafetyTimeout + 1)])

Next ==
  \/ Play
  \/ PlayResolves
  \/ PlayRejected
  \/ DeviceEnds
  \/ DeviceFails
  \/ DeliverEnded
  \/ DeliverError
  \/ PauseTimerFires
  \/ SafetyTimerFires
  \/ Stop
  \/ Tick

Spec == Init /\ [][Next]_vars



\* ===================================================== audio preparation
\* textToSpeech and generateQuestionAudios.  Two implementations:
\*   "sequential"  src/unnamed/part_000:114-153 (= ttsService.js:294-333)
\*                 one question at a time, try/catch per question, preload
\*   "parallel"    src/src/services/ttsService.js:113-116
\*                 Promise.all over textToSpeech of every question

PrepImpls == {"sequential", "parallel"}

\* null in the returned list and as textToSpeech's result
NoAudio == [text |-> 0, id |-> 0]

NQ == Len(questions)

Pr ==
  [prepPc |-> prepPc, tts |-> tts, results |-> results, audioOut |-> audioOut,
   urlCount |-> urlCount, spoken |-> spoken, remoteResult |-> remoteResult,
   preloadResult |-> preloadResult, narrated |-> narrated,
   narratorResult |-> narratorResult, ttsOutcome |-> ttsOutcome]

CommitPrep(r) ==
  /\ prepPc' = r.prepPc
  /\ tts' = r.tts
  /\ results' = r.results
  /\ audioOut' = r.audioOut
  /\ urlCount' = r.urlCount
  /\ spoken' = r.spoken
  /\ remoteResult' = r.remoteResult
  /\ preloadResult' = r.preloadResult
  /\ narrated' = r.narrated
  /\ narratorResult' = r.narratorResult
  /\ ttsOutcome' = r.ttsOutcome
  /\ UNCHANGED <<prepImpl, questions, hasKey, hasSpeech, useBrowserFallback>>
  /\ UNCHANGED <<playerVars, obsVars, cleanVars, appVars, genVars, recVars>>

RECURSIVE TextToSpeech(_, _)

\* audioObjects.push with the push of null left out
AudioObjectsPushSkipsNull(p, k, entry) ==
  LET p1 == [p EXCEPT !.audioOut = IF entry = NoAudio THEN @ ELSE Append(@, entry),
                      !.tts[k] = "resolved"]
  IN  IF k < NQ
        THEN TextToSpeech(p1, k + 1)
        ELSE [p1 EXCEPT !.prepPc = "returned"]

\* audioObjects.push(entry) for question k, then the next loop iteration
AudioObjectsPush(p, k, entry) ==
  LET p1 == [p EXCEPT !.audioOut = Append(@, entry), !.tts[k] = "resolved"]
  IN  IF k < NQ
        THEN TextToSpeech(p1, k + 1)
        ELSE [p1 EXCEPT !.prepPc = "returned"]

\* "sequential": the loop body after textToSpeech of question k has settled
SequentialAfterTts(p, k, url, rejected) ==
  IF rejected
    THEN AudioObjectsPush([p EXCEPT !.tts[k] = "rejected"], k, NoAudio)
  ELSE IF url # NoAudio
    THEN [p EXCEPT !.tts[k] = "preload"]         \* new Audio(url); audio.load()
  ELSE AudioObjectsPush(p, k, NoAudio)

\* "parallel": Promise.all sees the promise of question k settle
PromiseAllSettle(p, k, url, rejected) ==
  IF rejected
    THEN [p EXCEPT !.tts[k] = "rejected",
                   !.prepPc = IF @ = "running" THEN "rejected" ELSE @]
    ELSE LET p1 == [p EXCEPT !.tts[k] = "resolved"]
         IN  IF p1.prepPc = "running" /\ \A j \in 1..NQ : p1.tts[j] = "resolved"
               THEN [p1 EXCEPT !.prepPc = "returned",
                               !.audioOut = [j \in 1..NQ |-> p1.results[j]]]
               ELSE p1

\* the promise textToSpeech returned for question k settles
TtsSettled(p, k, url, rejected) ==
  LET p1 == [p EXCEPT !.ttsOutcome[k] = IF rejected THEN "threw"
                                        ELSE IF url = NoAudio THEN "null"
                                        ELSE "url"]
  IN  IF prepImpl = "sequential"
        THEN SequentialAfterTts(p1, k, url, rejected)
      ELSE IF prepImpl = "parallel"
        THEN PromiseAllSettle(p1, k, url, rejected)
      ELSE [p1 EXCEPT !.tts[k] = IF rejected THEN "rejected" ELSE "resolved"]

\* generateBrowserSpeech with speechSynthesis present: speak the text
GenerateBrowserSpeech(p, k, phase) ==
  [p EXCEPT !.tts[k] = phase,
            !.spoken = Append(@, questions[k]),
            !.narrated[k] = @ + 1]

\* the catch block of textToSpeech with the narrator fallback left out
TextToSpeechCatchRethrows(p, k) == TtsSettled(p, k, NoAudio, TRUE)

\* the catch block of textToSpeech without its test of useBrowserFallback
TextToSpeechCatchAlwaysRetries(p, k) ==
  IF hasSpeech
    THEN GenerateBrowserSpeech(p, k, "narrate2")
    ELSE TtsSettled(p, k, NoAudio, TRUE)

\* the catch block of textToSpeech
TextToSpeechCatch(p, k) ==
  IF ~useBrowserFallback[k] /\ hasSpeech
    THEN GenerateBrowserSpeech(p, k, "narrate2")
    ELSE TtsSettled(p, k, NoAudio, TRUE)

\* textToSpeech(questions[k].question, voice, useBrowserFallback[k]) up to
\* its first await
TextToSpeech(p, k) ==
  IF ~useBrowserFallback[k] /\ hasKey
    THEN [p EXCEPT !.tts[k] = "remote"]
  ELSE IF hasSpeech
    THEN GenerateBrowserSpeech(p, k, "narrate1")
  ELSE TextToSpeechCatch(p, k)

\* questions.map(q => textToSpeech(q.question, voice)) from question k on
RECURSIVE MapTextToSpeech(_, _)
MapTextToSpeech(p, k) ==
  IF k > NQ THEN p ELSE MapTextToSpeech(TextToSpeech(p, k), k + 1)

\* generateQuestionAudios(questions) up to its first await
GenerateQuestionAudios(p) ==
  LET p1 == [p EXCEPT !.prepPc = "running"]
  IN  IF prepImpl = "sequential"
        THEN TextToSpeech(p1, 1)
        ELSE MapTextToSpeech(p1, 1)

\* URL.createObjectURL(audioBlob) for question k
CreateObjectURL(p, k) ==
  [p EXCEPT !.urlCount = @ + 1,
            !.results[k] = [text |-> questions[k], id |-> p.urlCount + 1]]

QuestionLists == UNION {[1..n -> 1..MaxTexts] : n \in 1..MaxQuestions}

InitPrepare ==
  /\ impl = "single"
  /\ audioObjects = <<>>
  /\ pauseDuration = 2
  /\ PlayerFresh
  /\ prepImpl \in PrepImpls
  /\ questions \in QuestionLists
  /\ hasKey \in BOOLEAN
  /\ hasSpeech \in BOOLEAN
  /\ DefaultArguments
  /\ PrepFresh
  /\ emptySrcReads \in {EmptySrc, DocumentUrl}
  /\ CleanFresh
  /\ hasWakeLock = TRUE
  /\ AppFresh
  /\ GenFresh
  /\ supported = TRUE
  /\ RecFresh

\* the caller invokes generateQuestionAudios
Prepare ==
  /\ prepPc = "idle"
  /\ CommitPrep(GenerateQuestionAudios(Pr))

\* the OpenAI speech call of question k succeeds
RemoteSucceeds(k) ==
  /\ tts[k] = "remote"
  /\ LET p1 == CreateObjectURL([Pr EXCEPT !.remoteResult[k] = "ok"], k)
     IN  CommitPrep(TtsSettled(p1, k, p1.results[k], FALSE))

\* the OpenAI speech call of question k fails
RemoteFails(k) ==
  /\ tts[k] = "remote"
  /\ CommitPrep(TextToSpeechCatch([Pr EXCEPT !.remoteResult[k] = "failed"], k))

\* the narrator finishes speaking question k: utterance.onend
NarratorEnds(k) ==
  /\ tts[k] \in {"narrate1", "narrate2"}
  /\ CommitPrep(TtsSettled([Pr EXCEPT !.narratorResult[k] = "ended"],
                            k, NoAudio, FALSE))

\* the narrator fails on question k: utterance.onerror
NarratorErrors(k) ==
  /\ tts[k] \in {"narrate1", "narrate2"}
  /\ LET p1 == [Pr EXCEPT !.narratorResult[k] = "error"]
     IN  IF tts[k] = "narrate1"
           THEN CommitPrep(TextToSpeechCatch(p1, k))
           ELSE CommitPrep(TtsSettled(p1, k, NoAudio, TRUE))

\* the preloading Audio of question k fires loadeddata
PreloadLoaded(k) ==
  /\ tts[k] = "preload"
  /\ CommitPrep(AudioObjectsPush([Pr EXCEPT !.preloadResult[k] = "loaded"],
                                 k, results[k]))

\* the preloading Audio of question k fires error: caught, null is pushed
PreloadFails(k) ==
  /\ tts[k] = "preload"
  /\ CommitPrep(AudioObjectsPush([Pr EXCEPT !.preloadResult[k] = "failed"],
                                 k, NoAudio))

\* the preloading Audio of question k fires neither loadeddata nor error:
\* the load is suspended or stalls for good
PreloadStalls(k) ==
  /\ tts[k] = "preload"
  /\ CommitPrep([Pr EXCEPT !.preloadResult[k] = "stalled",
                           !.tts[k] = "stalled"])

\* ----------------------- cleanupAudioObjects: src/unnamed/part_000:268-280

Cl == [cleared |-> cleared, revoked |-> revoked, threw |-> cleanupThrew]

\* audio.src of entry k: the object URL it was created with, or what the
\* browser reports once '' has been assigned
AudioSrc(c, k) == IF k \in c.cleared THEN emptySrcReads ELSE audioOut[k].id

\* the forEach callback with the assignment audio.src = '' left out
CleanupEntryKeepsSrc(c, k) ==
  IF c.threw THEN c
  ELSE IF audioOut[k] # NoAudio /\ AudioSrc(c, k) # EmptySrc
    THEN [c EXCEPT !.revoked = Append(@, AudioSrc(c, k))]
    ELSE c

\* the forEach callback for entry k: if (audio && audio.src) { ... }
CleanupEntry(c, k) ==
  IF c.threw THEN c
  ELSE IF audioOut[k] # NoAudio /\ AudioSrc(c, k) # EmptySrc
    THEN [c EXCEPT !.revoked = Append(@, AudioSrc(c, k)),
                   !.cleared = @ \cup {k}]
    ELSE c

\* audioObjects.forEach from entry k on
RECURSIVE CleanupFrom(_, _)
CleanupFrom(c, k) ==
  IF k > Len(audioOut) THEN c ELSE CleanupFrom(CleanupEntry(c, k), k + 1)

\* cleanupAudioObjects(audioObjects) on the list generateQuestionAudios built
CleanupAudioObjects(c) ==
  IF Len(audioOut) = 0 THEN c ELSE CleanupFrom(c, 1)

\* the caller invokes cleanupAudioObjects; it exists only next to the
\* sequential generateQuestionAudios, whose list holds Audio elements
Release ==
  /\ prepImpl = "sequential"
  /\ prepPc \in {"idle", "returned"}
  /\ cleanupCalls < MaxCleanups
  /\ LET c == CleanupAudioObjects(Cl)
     IN  /\ cleared' = c.cleared
         /\ revoked' = c.revoked
         /\ cleanupThrew' = c.threw
  /\ cleanupCalls' = cleanupCalls + 1
  /\ UNCHANGED <<emptySrcReads, playerVars, obsVars, prepVars, appVars, genVars, recVars>>

NextPrepare ==
  \/ Prepare
  \/ Release
  \/ \E k \in 1..NQ : RemoteSucceeds(k)
  \/ \E k \in 1..NQ : RemoteFails(k)
  \/ \E k \in 1..NQ : NarratorEnds(k)
  \/ \E k \in 1..NQ : NarratorErrors(k)
  \/ \E k \in 1..NQ : PreloadLoaded(k)
  \/ \E k \in 1..NQ : PreloadFails(k)
  \/ \E k \in 1..NQ : PreloadStalls(k)

SpecPrepare == InitPrepare /\ [][NextPrepare]_vars

\* --------------------------------- textToSpeech called on its own

\* the texts of the calls
CallLists == UNION {[1..n -> 1..MaxTexts] : n \in 1..MaxCalls}

InitSynthesize ==
  /\ impl = "single"
  /\ audioObjects = <<>>
  /\ pauseDuration = 2
  /\ PlayerFresh
  /\ prepImpl = "direct"
  /\ questions \in CallLists
  /\ hasKey \in BOOLEAN
  /\ hasSpeech \in BOOLEAN
  /\ useBrowserFallback \in [1..Len(questions) -> BOOLEAN]
  /\ PrepFresh
  /\ emptySrcReads = EmptySrc
  /\ CleanFresh
  /\ hasWakeLock = TRUE
  /\ AppFresh
  /\ GenFresh
  /\ supported = TRUE
  /\ RecFresh

\* a caller invokes textToSpeech(questions[k], voice, useBrowserFallback[k])
CallTextToSpeech(k) ==
  /\ tts[k] = "idle"
  /\ CommitPrep(TextToSpeech(Pr, k))

NextSynthesize ==
  \/ \E k \in 1..NQ : CallTextToSpeech(k)
  \/ \E k \in 1..NQ : RemoteSucceeds(k)
  \/ \E k \in 1..NQ : RemoteFails(k)
  \/ \E k \in 1..NQ : NarratorEnds(k)
  \/ \E k \in 1..NQ : NarratorErrors(k)

SpecSynthesize == InitSynthesize /\ [][NextSynthesize]_vars

\* ======================================================== the application
\* App (src/src/App.jsx) and the AudioPlayer component
\* (src/src/services/speechRecognition.js:87-174).  A playQuestionsSequentially
\* call is followed here only as far as App can see it: the index it
\* announces through onQuestionStart and its onComplete call.

\* the <option> values of the pause-duration select
PauseOptions == {1, 2, 3, 5}

Ap ==
  [currentBelief |-> currentBelief, appQuestions |-> appQuestions,
   formattedQuestions |-> formattedQuestions,
   appAudioObjects |-> appAudioObjects, isProcessing |-> isProcessing,
   isLoadingAudio |-> isLoadingAudio, isPlaying |-> isPlaying,
   currentQuestionIndex |-> currentQuestionIndex, error |-> error,
   wakeLockRef |-> wakeLockRef, selectedPause |-> selectedPause,
   submissions |-> submissions, pendingPlays |-> pendingPlays,
   sessions |-> sessions, playCount |-> playCount, heldLocks |-> heldLocks,
   lockCount |-> lockCount, liveUrls |-> liveUrls]

CommitApp(r) ==
  /\ currentBelief' = r.currentBelief
  /\ appQuestions' = r.appQuestions
  /\ formattedQuestions' = r.formattedQuestions
  /\ appAudioObjects' = r.appAudioObjects
  /\ isProcessing' = r.isProcessing
  /\ isLoadingAudio' = r.isLoadingAudio
  /\ isPlaying' = r.isPlaying
  /\ currentQuestionIndex' = r.currentQuestionIndex
  /\ error' = r.error
  /\ wakeLockRef' = r.wakeLockRef
  /\ selectedPause' = r.selectedPause
  /\ submissions' = r.submissions
  /\ pendingPlays' = r.pendingPlays
  /\ sessions' = r.sessions
  /\ playCount' = r.playCount
  /\ heldLocks' = r.heldLocks
  /\ lockCount' = r.lockCount
  /\ liveUrls' = r.liveUrls
  /\ UNCHANGED <<pauseDurationRef, hasWakeLock>>
  /\ UNCHANGED <<playerVars, obsVars, prepVars, cleanVars, genVars, recVars>>

\* wakeLockRef.current.release(); wakeLockRef.current = null
ReleaseWakeLock(a) ==
  IF a.wakeLockRef # 0
    THEN [a EXCEPT !.heldLocks = @ \ {a.wakeLockRef}, !.wakeLockRef = 0]
    ELSE a

\* the onComplete callback handlePlay passes
AppOnComplete(a) ==
  ReleaseWakeLock([a EXCEPT !.isPlaying = FALSE, !.currentQuestionIndex = -1])

\* the onQuestionStart callback handlePlay passes
AppOnQuestionStart(a, i) == [a EXCEPT !.currentQuestionIndex = i]

\* the sequence q with its k-th element taken out
Without(q, k) == [j \in 1..(Len(q) - 1) |-> IF j < k THEN q[j] ELSE q[j + 1]]

\* session k runs its items from index i on, up to its next wait or its end
RECURSIVE RunItems(_, _, _)
RunItems(a, k, i) ==
  LET list == a.sessions[k].list
      n == Len(list)
  IN  IF i >= n
        THEN AppOnComplete([a EXCEPT !.sessions = Without(@, k)])
      ELSE IF list[i + 1] # 0
        THEN [AppOnQuestionStart(a, i) EXCEPT !.sessions[k].i = i,
                                              !.sessions[k].phase = "playing"]
      ELSE CASE impl = "single" -> RunItems(a, k, i + 1)
             [] impl = "preloaded" -> RunItems(AppOnQuestionStart(a, i), k, i + 1)
             [] impl = "urls" ->
                  IF i < n - 1
                    THEN [AppOnQuestionStart(a, i) EXCEPT
                            !.sessions[k].i = i,
                            !.sessions[k].phase = "pausing"]
                    ELSE RunItems(AppOnQuestionStart(a, i), k, i + 1)

\* handlePlay from the playQuestionsSequentially call on
CallPlayQuestionsSequentially(a, list) ==
  LET a1 == [a EXCEPT !.sessions =
               Append(@, [list |-> list, pause |-> pauseDurationRef,
                          i |-> 0, phase |-> "playing"])]
  IN  RunItems(a1, Len(a1.sessions), 0)

\* BeliefInput is rendered and its submit button enabled
CanSubmit == appQuestions = 0 /\ ~isProcessing

\* AudioPlayer is rendered
PlayerShown == formattedQuestions # 0

\* no cleanupAudioObjects call is made by App, so InitApp keeps the release
\* state fresh
InitApp ==
  /\ impl \in Impls
  /\ audioObjects = <<>>
  /\ pauseDuration = DefaultPause
  /\ PlayerFresh
  /\ prepImpl \in PrepImpls
  /\ questions = <<>>
  /\ hasKey = TRUE
  /\ hasSpeech = TRUE
  /\ DefaultArguments
  /\ PrepFresh
  /\ emptySrcReads = EmptySrc
  /\ CleanFresh
  /\ hasWakeLock \in BOOLEAN
  /\ AppFresh
  /\ GenFresh
  /\ supported = TRUE
  /\ RecFresh

\* handleBeliefSubmit(belief) up to await generateCartesianQuestions
HandleBeliefSubmit ==
  /\ CanSubmit
  /\ Len(submissions) < MaxSubmits
  /\ CommitApp([Ap EXCEPT !.currentBelief = Len(submissions) + 1,
                          !.isProcessing = TRUE,
                          !.isLoadingAudio = FALSE,
                          !.error = "",
                          !.submissions = Append(@, "questions")])

\* generateCartesianQuestions resolves for submission b: handleBeliefSubmit
\* runs on to await generateQuestionAudios
QuestionsReady(b) ==
  /\ submissions[b] = "questions"
  /\ CommitApp([Ap EXCEPT !.appQuestions = b,
                          !.formattedQuestions = b,
                          !.isProcessing = FALSE,
                          !.isLoadingAudio = TRUE,
                          !.submissions[b] = "audio"])

\* a catch block of handleBeliefSubmit that leaves isLoadingAudio alone
SubmitCatchKeepsLoading(a, b) ==
  [a EXCEPT !.error = "generate",
            !.isProcessing = FALSE,
            !.submissions[b] = "done"]

\* the catch block of handleBeliefSubmit
SubmitCatch(a, b) ==
  [a EXCEPT !.error = "generate",
            !.isProcessing = FALSE,
            !.isLoadingAudio = FALSE,
            !.submissions[b] = "done"]

\* generateCartesianQuestions rejects for submission b
QuestionsFail(b) ==
  /\ submissions[b] = "questions"
  /\ CommitApp(SubmitCatch(Ap, b))

\* the list generateQuestionAudios returns when the entries in nulls came
\* out null: a fresh object URL for every other entry
AudioList(a, nulls) ==
  [k \in 1..AppItems |->
     IF k \in nulls THEN 0
     ELSE Cardinality(a.liveUrls)
            + Cardinality({j \in 1..k : j \notin nulls})]

\* generateQuestionAudios resolves for submission b
AudioReady(b, nulls) ==
  /\ submissions[b] = "audio"
  /\ LET list == AudioList(Ap, nulls)
     IN  CommitApp([Ap EXCEPT
           !.liveUrls = @ \cup {list[k] : k \in (1..AppItems) \ nulls},
           !.appAudioObjects = [belief |-> b, urls |-> list],
           !.isLoadingAudio = FALSE,
           !.submissions[b] = "done"])

\* generateQuestionAudios rejects for submission b (Promise.all only)
AudioRejects(b) ==
  /\ prepImpl = "parallel"
  /\ submissions[b] = "audio"
  /\ CommitApp(SubmitCatch(Ap, b))

\* handlePlay without its test for an empty audioObjects
HandlePlayUnchecked ==
  /\ PlayerShown
  /\ ~isPlaying
  /\ playCount < MaxPlays
  /\ LET a == [Ap EXCEPT !.isPlaying = TRUE, !.error = "",
                         !.playCount = @ + 1]
     IN  IF hasWakeLock
           THEN CommitApp([a EXCEPT !.pendingPlays =
                  Append(@, appAudioObjects.urls)])
           ELSE CommitApp(CallPlayQuestionsSequentially(
                  a, appAudioObjects.urls))

\* handlePlay up to await navigator.wakeLock.request, or to its end
HandlePlay ==
  /\ PlayerShown
  /\ ~isPlaying
  /\ playCount < MaxPlays
  /\ IF appAudioObjects.urls = <<>>
       THEN CommitApp([Ap EXCEPT !.error = "noaudio"])
       ELSE LET a == [Ap EXCEPT !.isPlaying = TRUE, !.error = "",
                                !.playCount = @ + 1]
            IN  IF hasWakeLock
                  THEN CommitApp([a EXCEPT !.pendingPlays =
                         Append(@, appAudioObjects.urls)])
                  ELSE CommitApp(CallPlayQuestionsSequentially(
                         a, appAudioObjects.urls))

\* navigator.wakeLock.request resolves for the oldest waiting handlePlay
WakeLockGranted ==
  /\ pendingPlays # <<>>
  /\ LET p == Head(pendingPlays)
         a == [Ap EXCEPT !.pendingPlays = Tail(@),
                         !.lockCount = @ + 1,
                         !.heldLocks = @ \cup {lockCount + 1},
                         !.wakeLockRef = lockCount + 1]
     IN  CommitApp(CallPlayQuestionsSequentially(a, p))

\* navigator.wakeLock.request rejects: caught, playback goes on
WakeLockDenied ==
  /\ pendingPlays # <<>>
  /\ LET p == Head(pendingPlays)
     IN  CommitApp(CallPlayQuestionsSequentially(
           [Ap EXCEPT !.pendingPlays = Tail(@)], p))

\* the item session k is playing ends, fails or times out
ItemFinishes(k) ==
  /\ sessions[k].phase = "playing"
  /\ IF sessions[k].i < Len(sessions[k].list) - 1
       THEN CommitApp([Ap EXCEPT !.sessions[k].phase = "pausing"])
       ELSE CommitApp(RunItems(Ap, k, sessions[k].i + 1))

\* the pause of session k is over
PauseElapses(k) ==
  /\ sessions[k].phase = "pausing"
  /\ CommitApp(RunItems(Ap, k, sessions[k].i + 1))

\* handleStop
HandleStopBody(a) ==
  ReleaseWakeLock([a EXCEPT !.isPlaying = FALSE, !.currentQuestionIndex = -1])

\* the Stop button, shown while isPlaying
HandleStop ==
  /\ PlayerShown
  /\ isPlaying
  /\ CommitApp(HandleStopBody(Ap))

\* the Start New Session button; AudioPlayer unmounts and loses its state
HandleNewSession ==
  /\ PlayerShown
  /\ ~isPlaying
  /\ CommitApp([HandleStopBody(Ap) EXCEPT !.currentBelief = 0,
                                          !.appQuestions = 0,
                                          !.formattedQuestions = 0,
                                          !.appAudioObjects = NoList,
                                          !.error = "",
                                          !.selectedPause = DefaultPause])

\* the user picks another pause in the select: setPauseDuration(v)
SelectPause(v) ==
  /\ PlayerShown
  /\ ~isPlaying
  /\ v # selectedPause
  /\ CommitApp([Ap EXCEPT !.selectedPause = v])

NextApp ==
  \/ HandleBeliefSubmit
  \/ \E b \in 1..Len(submissions) : QuestionsReady(b)
  \/ \E b \in 1..Len(submissions) : QuestionsFail(b)
  \/ \E b \in 1..Len(submissions), nulls \in SUBSET (1..AppItems) :
       AudioReady(b, nulls)
  \/ \E b \in 1..Len(submissions) : AudioRejects(b)
  \/ HandlePlay
  \/ WakeLockGranted
  \/ WakeLockDenied
  \/ \E k \in 1..Len(sessions) : ItemFinishes(k)
  \/ \E k \in 1..Len(sessions) : PauseElapses(k)
  \/ HandleStop
  \/ HandleNewSession
  \/ \E v \in PauseOptions : SelectPause(v)

SpecApp == InitApp /\ [][NextApp]_vars

\* ------------------------------------------------------------------------
\* Question generation: cartesianLogic (src/unnamed/part_001) and
\* handleBeliefSubmit up to setFormattedQuestions (src/src/App.jsx:21-34).
\* A belief is a trimmed, non-empty sequence of words; a word is atomic, so
\* a pattern matches a word when it is that word.

Words == {"I", "can't", "am", "not", "my", "did"}
Beliefs == UNION {[1..n -> Words] : n \in 1..MaxWords}

Keys == {"theorem", "converse", "inverse", "nonMirrorReverse"}

\* question texts a remote answer may carry
RemoteTexts == {<<"what">>, <<"what", "if">>}

\* the values JSON.parse can return for a response body: null, or an object
\* holding any of the four keys (a value without the keys reads like {})
JsonValues ==
  {[kind |-> "null", fields |-> [k \in {} |-> <<>>]]} \cup
  {[kind |-> "object", fields |-> f] :
     f \in UNION {[S -> RemoteTexts] : S \in SUBSET Keys}}

\* response.choices[0].message.content: text that is JSON or is not
Contents ==
  {[valid |-> FALSE, value |-> NoQuestions]} \cup
  {[valid |-> TRUE, value |-> v] : v \in JsonValues}

\* JSON.parse(content)
JsonParse(c) ==
  IF c.valid THEN [threw |-> FALSE, value |-> c.value]
             ELSE [threw |-> TRUE, value |-> NoQuestions]

BeingWords == {"am", "is", "are", "be", "being"}
HavingWords == {"have", "has", "having", "had", "get", "getting", "got"}
NegativeWords == {"can't", "cannot", "not"}

\* parseBelief
ParseBelief(b) ==
  [original |-> b,
   verbType |-> IF \E k \in 1..Len(b) : b[k] \in BeingWords THEN "being"
                ELSE IF \E k \in 1..Len(b) : b[k] \in HavingWords THEN "having"
                ELSE "doing",
   isNegative |-> \E k \in 1..Len(b) : b[k] \in NegativeWords]

\* w.replace(/^pat\s+/i, rep + ' '): the pattern wants a word after it
ReplacePrefix(w, pat, new) ==
  IF Len(w) > Len(pat) /\ SubSeq(w, 1, Len(pat)) = pat
    THEN new \o SubSeq(w, Len(pat) + 1, Len(w))
    ELSE w

\* the chain of prefix replacements, in the order of the source
FirstToSecondPerson(w) ==
  ReplacePrefix(
   ReplacePrefix(
    ReplacePrefix(
     ReplacePrefix(
      ReplacePrefix(
       ReplacePrefix(
        ReplacePrefix(
         ReplacePrefix(w, <<"I", "can't">>, <<"you", "did">>),
         <<"I", "cannot">>, <<"you", "did">>),
        <<"I", "am", "not">>, <<"you", "were">>),
       <<"I", "don't">>, <<"you", "did">>),
      <<"I", "haven't">>, <<"you", "had">>),
     <<"I'm">>, <<"you", "were">>),
    <<"I", "am">>, <<"you", "were">>),
   <<"I">>, <<"you">>)

\* the four \b...\b pronoun replacements
Pronoun(word) ==
  CASE word = "myself" -> "yourself"
    [] word = "me" -> "you"
    [] word = "my" -> "your"
    [] word = "mine" -> "yours"
    [] OTHER -> word

\* position of the first occurrence of word followed by a space, or 0
IndexOf(w, word) ==
  IF \E k \in 1..(Len(w) - 1) : w[k] = word
    THEN CHOOSE k \in 1..(Len(w) - 1) :
           /\ w[k] = word
           /\ \A j \in 1..(k - 1) : w[j] # word
    ELSE 0

\* negativeAction
NegativeAction(c) ==
  IF IndexOf(c, "did") # 0 THEN [c EXCEPT ![IndexOf(c, "did")] = "didn't"]
  ELSE IF IndexOf(c, "were") # 0 THEN [c EXCEPT ![IndexOf(c, "were")] = "weren't"]
  ELSE IF IndexOf(c, "had") # 0 THEN [c EXCEPT ![IndexOf(c, "had")] = "hadn't"]
  ELSE <<"you", "did", "not">> \o ReplacePrefix(c, <<"you">>, <<>>)

\* generateTemplateQuestions
GenerateTemplateQuestions(b, parsed) ==
  LET person == FirstToSecondPerson(b)
      positiveAction == [k \in 1..Len(person) |-> Pronoun(person[k])]
      negativeAction == NegativeAction(positiveAction)
  IN [kind |-> "object",
      fields |-> [k \in Keys |->
        CASE k = "theorem" ->
               <<"What", "would", "happen", "if">> \o positiveAction \o <<"?">>
          [] k = "converse" ->
               <<"What", "wouldn't", "happen", "if">> \o positiveAction \o <<"?">>
          [] k = "inverse" ->
               <<"What", "would", "happen", "if">> \o negativeAction \o <<"?">>
          [] k = "nonMirrorReverse" ->
               <<"What", "wouldn't", "happen", "if">> \o negativeAction \o <<"?">>]]

\* a catch block that passes the error on
GenerateCatchRethrows(b, parsed) == [rejected |-> TRUE, value |-> NoQuestions]

\* the catch block of generateCartesianQuestions
GenerateCatch(b, parsed) ==
  [rejected |-> FALSE, value |-> GenerateTemplateQuestions(b, parsed)]

\* generateCartesianQuestions once the remote call has thrown or answered c
GenerateCartesianQuestions(b, threw, c) ==
  LET parsed == ParseBelief(b)
  IN IF threw \/ JsonParse(c).threw
       THEN GenerateCatch(b, parsed)
       ELSE [rejected |-> FALSE, value |-> JsonParse(c).value]

\* questions.<key>
ReadKey(q, key) ==
  IF key \in DOMAIN q.fields
    THEN [defined |-> TRUE, text |-> q.fields[key]]
    ELSE [defined |-> FALSE, text |-> <<>>]

\* formatQuestionsForDisplay: reading a property of null throws
FormatQuestionsForDisplay(q) ==
  IF q.kind = "null"
    THEN [threw |-> TRUE, list |-> <<>>]
    ELSE [threw |-> FALSE,
          list |-> <<[id |-> 1, label |-> "Theorem (AB)",
                      question |-> ReadKey(q, "theorem")],
                     [id |-> 2, label |-> "Converse (~AB)",
                      question |-> ReadKey(q, "converse")],
                     [id |-> 3, label |-> "Inverse (A~B)",
                      question |-> ReadKey(q, "inverse")],
                     [id |-> 4, label |-> "Non-Mirror Reverse (~A~B)",
                      question |-> ReadKey(q, "nonMirrorReverse")]>>]

\* handleBeliefSubmit from the settling of generateCartesianQuestions on
SubmitContinues(g) ==
  LET f == FormatQuestionsForDisplay(g.value)
  IN /\ generated' = g
     /\ IF g.rejected \/ f.threw
          THEN /\ submitError' = TRUE
               /\ genPc' = "failed"
               /\ UNCHANGED display
          ELSE /\ display' = f.list
               /\ genPc' = "shown"
               /\ UNCHANGED submitError
     /\ UNCHANGED <<belief, playerVars, obsVars, prepVars, cleanVars, appVars, recVars>>

InitQuestions ==
  /\ impl = "single"
  /\ audioObjects = <<>>
  /\ pauseDuration = 1
  /\ PlayerFresh
  /\ prepImpl = "sequential"
  /\ questions = <<>>
  /\ hasKey = TRUE
  /\ hasSpeech = TRUE
  /\ DefaultArguments
  /\ PrepFresh
  /\ emptySrcReads = EmptySrc
  /\ CleanFresh
  /\ hasWakeLock = TRUE
  /\ AppFresh
  /\ GenFresh
  /\ supported = TRUE
  /\ RecFresh

\* the user submits belief b
SubmitBelief(b) ==
  /\ genPc = "idle"
  /\ belief' = b
  /\ genPc' = "calling"
  /\ UNCHANGED <<remote, generated, display, submitError>>
  /\ UNCHANGED <<playerVars, obsVars, prepVars, cleanVars, appVars, recVars>>

\* openai.chat.completions.create throws (or the response has no choices)
RemoteThrows ==
  /\ genPc = "calling"
  /\ remote' = "threw"
  /\ SubmitContinues(GenerateCartesianQuestions(belief, TRUE, CHOOSE c \in Contents : ~c.valid))

\* the remote call answers with content c
RemoteResponds(c) ==
  /\ genPc = "calling"
  /\ remote' = IF c.valid THEN "json" ELSE "unparseable"
  /\ SubmitContinues(GenerateCartesianQuestions(belief, FALSE, c))

NextQuestions ==
  \/ \E b \in Beliefs : SubmitBelief(b)
  \/ RemoteThrows
  \/ \E c \in Contents : RemoteResponds(c)

SpecQuestions == InitQuestions /\ [][NextQuestions]_vars

\* ------------------------------------------------------------------------
\* Speech recognition: src/src/services/speechRecognition.js:1-85 and
\* handleSpeechRecognition of BeliefInput (src/unnamed/part_002:9-30).
\* Each call creates its own SpeechRecognition object; start() on a fresh
\* object does not throw.  A recognition, once started, fires result or
\* error at most once and then end; it may fire end alone.

\* the callbacks a recognition was created with
Owners == {"input", "promise"}

\* createSpeechRecognition(onResult, onError) followed by start()
NewRecognition(owner) ==
  [owner |-> owner, state |-> "started",
   promise |-> IF owner = "promise" THEN "pending" ELSE "none"]

\* the onResult callback of recognition k, called with transcript t
OnResult(k, t) ==
  IF recognitions[k].owner = "input"
    THEN /\ inputBelief' = t
         /\ isListening' = FALSE
         /\ recognitions' = [recognitions EXCEPT ![k].state = "heard"]
         /\ UNCHANGED inputError
    ELSE /\ recognitions' = [recognitions EXCEPT
              ![k].state = "heard",
              ![k].promise = IF @ = "pending" THEN "resolved" ELSE @]
         /\ UNCHANGED <<inputBelief, isListening, inputError>>

\* recognition.onend: logs only
RecognitionOnEnd(k) ==
  /\ recognitions' = [recognitions EXCEPT ![k].state = "ended"]
  /\ UNCHANGED <<inputBelief, isListening, inputError>>

\* the onError callback of recognition k
OnRecognitionError(k) ==
  IF recognitions[k].owner = "input"
    THEN /\ inputError' = "recognition"
         /\ isListening' = FALSE
         /\ recognitions' = [recognitions EXCEPT ![k].state = "failed"]
         /\ UNCHANGED inputBelief
    ELSE /\ recognitions' = [recognitions EXCEPT
              ![k].state = "failed",
              ![k].promise = IF @ = "pending" THEN "rejected" ELSE @]
         /\ UNCHANGED <<inputBelief, isListening, inputError>>

RecFrame == UNCHANGED <<supported, playerVars, obsVars, prepVars, cleanVars,
                        appVars, genVars>>

InitRecognition ==
  /\ impl = "single"
  /\ audioObjects = <<>>
  /\ pauseDuration = 1
  /\ PlayerFresh
  /\ prepImpl = "sequential"
  /\ questions = <<>>
  /\ hasKey = TRUE
  /\ hasSpeech = TRUE
  /\ DefaultArguments
  /\ PrepFresh
  /\ emptySrcReads = EmptySrc
  /\ CleanFresh
  /\ hasWakeLock = TRUE
  /\ AppFresh
  /\ GenFresh
  /\ supported \in BOOLEAN
  /\ RecFresh

\* the microphone button of BeliefInput, rendered when recognition is
\* supported and enabled while not listening
HandleSpeechRecognition ==
  /\ supported
  /\ ~isListening
  /\ Len(recognitions) < MaxRecognitions
  /\ isListening' = TRUE
  /\ inputError' = ""
  /\ recognitions' = Append(recognitions, NewRecognition("input"))
  /\ UNCHANGED inputBelief
  /\ RecFrame

\* a caller invokes recognizeSpeech(): without support
\* createSpeechRecognition throws in the executor and the promise is rejected
RecognizeSpeech ==
  /\ Len(recognitions) < MaxRecognitions
  /\ recognitions' = Append(recognitions,
       IF supported THEN NewRecognition("promise")
       ELSE [owner |-> "promise", state |-> "ended", promise |-> "rejected"])
  /\ UNCHANGED <<inputBelief, isListening, inputError>>
  /\ RecFrame

\* recognition k fires result with transcript t
RecognitionResult(k, t) ==
  /\ recognitions[k].state = "started"
  /\ OnResult(k, t)
  /\ RecFrame

\* recognition k fires error
RecognitionError(k) ==
  /\ recognitions[k].state = "started"
  /\ OnRecognitionError(k)
  /\ RecFrame

\* recognition k fires end: after its result, after its error, or alone
RecognitionEnd(k) ==
  /\ recognitions[k].state \in {"started", "heard", "failed"}
  /\ RecognitionOnEnd(k)
  /\ RecFrame

NextRecognition ==
  \/ HandleSpeechRecognition
  \/ RecognizeSpeech
  \/ \E k \in 1..Len(recognitions), t \in 1..MaxTexts : RecognitionResult(k, t)
  \/ \E k \in 1..Len(recognitions) : RecognitionError(k)
  \/ \E k \in 1..Len(recognitions) : RecognitionEnd(k)

SpecRecognition == InitRecognition /\ [][NextRecognition]_vars

\* ------------------------------------------------------------ vocabulary

\* nothing is pending: no promise, no queued event, no timer, and the
\* element is neither loading nor playing
Quiescent ==
  /\ pc # "idle"
  /\ playPromise = None
  /\ event = "none"
  /\ pauseTimers = <<>>
  /\ safetyTimer = None
  /\ mainAudio \notin {"loading", "playing"}

NoNulls == \A k \in 1..N : audioObjects[k] = Audio
AllNull == \A k \in 1..N : audioObjects[k] = Null

\* every item ends normally and stop is never called
NormalRun == NoNulls /\ ~abnormal /\ ~aborted

\* stop() was called before the session had completed
StoppedWhileRunning == stoppedIn \ {"completed"} # {}

\* ------------------------------------------------------------------ claims

\* C1: on a playlist of n available items where every item ends normally and
\* stop is never called, onItemStart fires for 0..n-1 in increasing order,
\* item i+1 starts only after item i was seen to end and the pause elapsed,
\* and onComplete fires exactly once, after the last item has ended.
C1_NormalRunInOrder ==
  NormalRun =>
    /\ Len(startLog) <= N
    /\ \A k \in 1..Len(startLog) : startLog[k] = k - 1
    /\ Len(playLog) = Len(startLog)
    /\ \A k \in 1..Len(playLog) :
         /\ playLog[k].item = k - 1
         /\ ~playLog[k].busy
         /\ k > 1 => playLog[k].gap = pauseDuration
    /\ completeCount <= 1
    /\ completeCount = 1 => Len(startLog) = N /\ active = {}
    /\ Quiescent => completeCount = 1

C1_Witness ==
  /\ NormalRun
  /\ N = 3
  /\ pauseDuration = 2
  /\ startLog = <<0, 1, 2>>
  /\ completeCount = 1

\* C2: stop() called while the session is playing or pausing leads to exactly
\* one onComplete: never more than one, and one once nothing is pending.
C2_StopCompletesOnce ==
  (impl = "single" /\ StoppedWhileRunning) =>
    /\ completeCount <= 1
    /\ Quiescent => completeCount = 1

\* C3: once stop() has been called no further onItemStart fires and no
\* further item is loaded or played, whatever timer or event fires later.
C3_StoppedIsTerminal ==
  [][aborted => (startLog' = startLog /\ playLog' = playLog /\ src' = src)]_vars

\* stop() was called during a pause or with the ended event queued, and the
\* pending timer or event has fired since
C3_Witness ==
  /\ impl = "single"
  /\ aborted
  /\ "ended" \in stoppedIn
  /\ completeCount = 1
  /\ Len(startLog) < N

\* C4: an item whose playback started and for which the device signals
\* neither ended nor error stays the current item no longer than the
\* per-item timeout.
C4_TimeoutAdvances ==
  (impl \in {"single", "preloaded"} /\ mainAudio = "playing" /\ event = "none")
    => playingFor <= SafetyTimeout

\* C7: under "single" no item is started while an earlier started item has
\* not been observed to end, error or time out.
C7_OneActiveItem ==
  impl = "single" => \A k \in 1..Len(playLog) : ~playLog[k].busy

\* C8: a rejected play() call is caught and the item treated as ended, so the
\* session never hangs on it; play() is issued at most twice per item.
C8_RejectionAdvances ==
  /\ \A i \in 0..(N - 1) :
       Cardinality({k \in 1..Len(playLog) : playLog[k].item = i}) <= 2
  /\ mainAudio = "blocked" =>
       /\ src \notin active
       /\ Quiescent => pc = "done"

\* C9: a playlist whose entries are all null never loads or plays the
\* element and completes with exactly one onComplete.
C9_AllUnavailable ==
  AllNull =>
    /\ playLog = <<>>
    /\ mainAudio = "empty"
    /\ src = None
    /\ completeCount <= 1
    /\ Quiescent => completeCount = 1
    /\ (impl \in {"single", "preloaded"} /\ pc # "idle") => completeCount = 1

C9_Witness ==
  /\ AllNull
  /\ N = 3
  /\ impl \in {"single", "preloaded"}
  /\ completeCount = 1

\* C10: under "single" and "preloaded" a pause timer is scheduled only in the
\* task that observed an item's end, error, rejection or timeout, and never
\* before the first play() call.
C10_PauseOnlyAfterFinish ==
  impl \in {"single", "preloaded"} =>
    \A k \in 1..Len(pauseLog) :
      /\ pauseLog[k].trigger \in {"ended", "error", "rejected", "timeout"}
      /\ pauseLog[k].sinceFinish = 0
      /\ pauseLog[k].plays >= 1

C10_Witness ==
  /\ impl \in {"single", "preloaded"}
  /\ audioObjects[1] = Null
  /\ Len(pauseLog) >= 1

C6_PrepareNeverRejects == prepPc # "rejected"

\* C11: under "single" and "preloaded" every play() call after the first is
\* issued only when the full pause has elapsed since the finish (ended,
\* error, timeout, play rejection) of the item started before it.
C11_PauseAfterEveryFinish ==
  impl \in {"single", "preloaded"} =>
    \A k \in 2..Len(playLog) : playLog[k].gap = pauseDuration

\* C12: when the OpenAI call of a question fails, textToSpeech hands the
\* text to the narrator exactly once and never returns a URL; it returns null
\* when the narrator finishes, and it throws only when the narrator is
\* missing or fails too.
C12_RemoteFailureFallsBack ==
  \A k \in 1..NQ :
    remoteResult[k] = "failed" =>
      /\ narrated[k] <= 1
      /\ hasSpeech => narrated[k] = 1
      /\ ttsOutcome[k] # "url"
      /\ narratorResult[k] = "ended" => ttsOutcome[k] = "null"
      /\ ttsOutcome[k] = "threw" => (~hasSpeech \/ narratorResult[k] = "error")

\* the remote call of a question failed, the narrator spoke it to the end
C12_Witness ==
  \E k \in 1..NQ :
    /\ remoteResult[k] = "failed"
    /\ narrated[k] = 1
    /\ narratorResult[k] = "ended"
    /\ ttsOutcome[k] = "null"

\* C13: under "sequential" generateQuestionAudios ends in a rejection exactly
\* when there is neither an API key nor speechSynthesis; whenever one of the
\* two is present it returns a list, whatever fails per question.
C13_HardFailureIffNoPath ==
  (prepImpl = "sequential" /\ prepPc \in {"returned", "rejected"}) =>
    (prepPc = "rejected" <=> (~hasKey /\ ~hasSpeech))

\* the number of revokeObjectURL calls made with the object URL id
Revocations(id) == Cardinality({j \in 1..Len(revoked) : revoked[j] = id})

\* C14: however often cleanupAudioObjects is called on the returned list, no
\* call throws, revokeObjectURL is called at most once with each object URL
\* of the list, and after the first call exactly once with each of them.
C14_ReleaseIdempotent ==
  /\ ~cleanupThrew
  /\ \A id \in 1..urlCount : Revocations(id) <= 1
  /\ (prepPc = "returned" /\ cleared # {} ) =>
       \A k \in 1..Len(audioOut) :
         audioOut[k] # NoAudio => (k \in cleared /\ Revocations(audioOut[k].id) = 1)

\* cleanupAudioObjects has run at least twice on a list holding two clips
\* and a null entry
C14_Witness ==
  /\ prepPc = "returned"
  /\ cleanupCalls >= 2
  /\ Cardinality(cleared) = 2
  /\ \E k \in 1..Len(audioOut) : audioOut[k] = NoAudio

\* C15: the object URLs created and not yet revoked are never more than the
\* entries of the playlist App holds.
C15_UnreleasedWithinPlaylist ==
  Cardinality(liveUrls) <= Len(appAudioObjects.urls)

\* the playQuestionsSequentially call of the latest Play press is running
\* and isPlaying has been true since that press, so that the select has been
\* disabled and still shows what it showed then
LatestPlayRunning == isPlaying /\ pendingPlays = <<>> /\ sessions # <<>>

\* C16: the playQuestionsSequentially call made for a Play press is given
\* the pause that was selected in AudioPlayer when Play was pressed.
C16_PlayUsesSelectedPause ==
  LatestPlayRunning => sessions[Len(sessions)].pause = selectedPause

\* C17: under "single" and "preloaded" a finished play of the two-entry
\* playlist of narrator results (both entries null) has called
\* onQuestionStart(0) and onQuestionStart(1), in this order, with one pause
\* scheduled between them.
C17_NarratedSequence ==
  (impl \in {"single", "preloaded"} /\ N = 2 /\ AllNull /\ completeCount >= 1) =>
    /\ startLog = <<0, 1>>
    /\ Len(pauseLog) = 1

\* C18: whenever an item is loaded into the element and whenever play() is
\* called for it, the latest onQuestionStart call was the one for this item.
C18_StartBeforeLoadAndPlay ==
  \A k \in 1..Len(playLog) : playLog[k].loadAnnounced /\ playLog[k].announced

\* two items have been loaded and played, the second after a failure
C18_Witness ==
  /\ impl \in {"single", "preloaded"}
  /\ abnormal
  /\ Len(playLog) >= 2
  /\ playLog[2].item = 1

\* C19: no step of a play session decreases currentIndex, whichever of the
\* ended, error, rejection, timeout and stop handlers it runs.
C19_IndexNeverDecreases == [][currentIndex' >= currentIndex]_vars

\* the index has advanced past an ended item and a failed one, and stop was
\* called afterwards
C19_Witness ==
  /\ impl = "single"
  /\ currentIndex >= 2
  /\ abnormal
  /\ Len(pauseLog) >= 1
  /\ aborted

\* C20: all play() calls of a session are issued on one and the same Audio
\* element.
C20_OneDevice ==
  \A j, k \in 1..Len(playLog) : playLog[j].device = playLog[k].device

\* what a session is made of, without the record of where stop() was called
SessionState(s) == [s EXCEPT !.stoppedIn = {}]

\* C21: once stop() has been called, calling it again (whatever has happened
\* in between: the item was playing, a pause was running, the session had
\* completed) leaves every part of the session as it was.
C21_SecondStopChangesNothing ==
  (impl = "single" /\ aborted) =>
    SessionState(Drain(ControlStop(St))) = SessionState(St)

\* stop() was called while the item was playing and again afterwards
C21_Witness ==
  /\ impl = "single"
  /\ aborted
  /\ {"playing", "paused"} \subseteq stoppedIn

\* C22: whatever the remote call does, once the submission has settled the
\* application shows exactly four questions, ids 1..4 in the order Theorem,
\* Converse, Inverse, Non-Mirror-Reverse, each with a defined question text.
C22_FourDefinedQuestions ==
  genPc \in {"shown", "failed"} =>
    /\ Len(display) = 4
    /\ \A k \in 1..4 : display[k].id = k /\ display[k].question.defined
    /\ <<display[1].label, display[2].label, display[3].label, display[4].label>>
         = <<"Theorem (AB)", "Converse (~AB)", "Inverse (A~B)",
             "Non-Mirror Reverse (~A~B)">>

\* C23: generateCartesianQuestions never rejects, and when the remote call
\* threw or its answer could not be parsed it returned the template
\* questions of the submitted belief: four different texts under the four
\* keys.
C23_FallsBackToTemplates ==
  genPc \in {"shown", "failed"} =>
    /\ ~generated.rejected
    /\ remote \in {"threw", "unparseable"} =>
         /\ generated.value = GenerateTemplateQuestions(belief, ParseBelief(belief))
         /\ DOMAIN generated.value.fields = Keys
         /\ \A j, k \in Keys :
              j # k => generated.value.fields[j] # generated.value.fields[k]
         /\ genPc = "shown"

\* "I can't did": the remote answer was not JSON and the template questions
\* of that belief are shown
C23_Witness ==
  /\ remote = "unparseable"
  /\ belief = <<"I", "can't", "did">>
  /\ genPc = "shown"
  /\ display[3].question.text =
       <<"What", "would", "happen", "if", "you", "didn't", "did", "?">>

\* C24: on the fallback path textToSpeech returns null at once, without
\* waiting for the narrator to finish speaking, and creates no object URL.
C24_FallbackReturnsAtOnce ==
  \A k \in 1..NQ :
    tts[k] \in {"narrate1", "narrate2"} =>
      /\ ttsOutcome[k] = "null"
      /\ results[k] = NoAudio

\* C25: generateQuestionAudios never drives the narrator, whether the
\* remote path is unavailable or fails.
C25_PreparationIsSilent ==
  prepImpl = "sequential" => spoken = <<>>

\* C26: a textToSpeech call with useBrowserFallback = true never issues the
\* remote call, whatever the credential state, drives the narrator at most
\* once, and a narrator failure is thrown to the caller.
C26_ExplicitFallback ==
  \A k \in 1..NQ :
    useBrowserFallback[k] =>
      /\ tts[k] # "remote"
      /\ remoteResult[k] = "none"
      /\ narrated[k] <= 1
      /\ narratorResult[k] = "error" => (tts[k] = "rejected" /\ ttsOutcome[k] = "threw")

\* a forced-fallback call made with a credential present: the narrator
\* failed once and the call threw
C26_Witness ==
  /\ hasKey
  /\ \E k \in 1..NQ :
       /\ useBrowserFallback[k]
       /\ narrated[k] = 1
       /\ narratorResult[k] = "error"
       /\ ttsOutcome[k] = "threw"

\* nothing generateQuestionAudios waits for can still happen
PrepQuiescent ==
  /\ prepPc # "idle"
  /\ \A k \in 1..NQ : tts[k] \notin {"remote", "narrate1", "narrate2", "preload"}

\* C27: generateQuestionAudios always terminates, also when a preloading
\* Audio signals neither loadeddata nor error: once nothing is pending it
\* has returned a list with one entry per question.
C27_PrepareTerminates ==
  (prepImpl = "sequential" /\ PrepQuiescent) =>
    (prepPc = "returned" /\ Len(audioOut) = NQ)

\* C28: once isPlaying is false and currentQuestionIndex is -1 (as handleStop
\* leaves them) they stay so until handlePlay runs again: no question is
\* announced in between.
C28_StoppedStaysStopped ==
  [][(~isPlaying /\ currentQuestionIndex = -1 /\ ~isPlaying')
       => currentQuestionIndex' = -1]_vars

\* C29: at most one playQuestionsSequentially call has its item loop running.
C29_OneSession ==
  impl = "preloaded" => Len(sessions) <= 1

\* C30: without any stop() call, whatever device events and rejections
\* occur for an item, onComplete is invoked at most once.
C30_CompletesAtMostOnce ==
  (impl \in {"single", "preloaded"} /\ ~aborted) => completeCount <= 1

\* C31: the index advances once per item, so it never passes the length of
\* the playlist; each index receives onItemStart at most once, and when
\* stop() is never called every non-null item has received onItemStart once
\* the session has completed, however many events fire for an item.
C31_EveryItemStartsOnce ==
  impl \in {"single", "preloaded"} =>
    /\ currentIndex <= N
    /\ \A j, k \in 1..Len(startLog) : j # k => startLog[j] # startLog[k]
    /\ (~aborted /\ completeCount >= 1) =>
         \A i \in 0..(N - 1) :
           audioObjects[i + 1] = Audio => \E k \in 1..Len(startLog) : startLog[k] = i

\* C32: a non-empty playlist held by the application was prepared for the
\* questions on display, so Play never plays the audio of an earlier belief.
C32_PlaylistOfShownQuestions ==
  appAudioObjects.urls # <<>> => appAudioObjects.belief = formattedQuestions

IndexAfterPause == IF impl = "single" THEN currentIndex ELSE currentIndex + 1

\* C33: a pause timer is only ever pending in front of an index of the
\* playlist and before onComplete: none is scheduled after the final index,
\* also when the final entries are null.
C33_NoPauseAfterLastIndex ==
  (impl \in {"single", "preloaded"} /\ pauseTimers # <<>>) =>
    (IndexAfterPause < N /\ completeCount = 0)

\* a playlist whose final entry is null has been played to completion, with
\* a pause after its first item
C33_Witness ==
  /\ impl \in {"single", "preloaded"}
  /\ N >= 2
  /\ audioObjects[1] = Audio
  /\ audioObjects[N] = Null
  /\ pauseLog # <<>>
  /\ completeCount = 1
  /\ pauseTimers = <<>>

\* C35: no wake lock is held while isPlaying is false.
C35_NoLockWhenNotPlaying ==
  ~isPlaying => heldLocks = {}

\* C36: once every recognition has ended (after a result, after an error, or
\* with neither) isListening is false and no recognizeSpeech promise is
\* pending.
C36_RecognitionLeavesListening ==
  (\A k \in 1..Len(recognitions) : recognitions[k].state = "ended") =>
    /\ ~isListening
    /\ \A k \in 1..Len(recognitions) : recognitions[k].promise # "pending"

\* C37: when generateQuestionAudios has returned, every object URL created
\* on the way is held by an entry of the returned list or has been revoked.
C37_HandlesStayReachable ==
  (prepImpl = "sequential" /\ prepPc = "returned") =>
    \A k \in 1..NQ :
      results[k] # NoAudio =>
        (audioOut[k] = results[k] \/ Revocations(results[k].id) >= 1)

\* C38: no step of a play session changes the playlist: its length, its
\* order and the source of every entry stay as they were.
C38_PlaylistUnchanged == [][audioObjects' = audioObjects]_vars

\* a session over a playlist with a null entry in the middle has played both
\* of its audio entries and is done
C38_Witness ==
  /\ pc = "done"
  /\ audioObjects = <<Audio, Null, Audio>>
  /\ Len(playLog) = 2
  /\ completeCount >= 1

\* C39: Play pressed while audioObjects is empty sets the 'No audio
\* available' error and changes nothing else: isPlaying stays false, no wake
\* lock is requested and no playback starts.
C39_PlayOnEmptyOnlySetsError ==
  [][(appAudioObjects.urls = <<>> /\ HandlePlay) =>
       /\ error' = "noaudio"
       /\ ~isPlaying'
       /\ UNCHANGED <<currentBelief, appQuestions, formattedQuestions,
                      appAudioObjects, isProcessing, isLoadingAudio, isPlaying,
                      currentQuestionIndex, pauseDurationRef, wakeLockRef,
                      selectedPause, submissions, pendingPlays, sessions,
                      playCount, heldLocks, lockCount, liveUrls>>]_vars

\* Play was pressed while the audio of the submission was being prepared
C39_Witness ==
  /\ error = "noaudio"
  /\ isLoadingAudio
  /\ appAudioObjects.urls = <<>>
  /\ ~isPlaying
  /\ playCount = 0

====
